---- MODULE Spec2Model ----
(***************************************************************************)
(* Turn-taking control flow of the voice interview bot (src/app.py).       *)
(*                                                                         *)
(* Text is modelled as a sequence of one-character strings, so that the    *)
(* regular expressions, strip(), lower() and the substring test of the     *)
(* source are computed character by character.                             *)
(*                                                                         *)
(* on_message is a callback of the transcription connection.  The source   *)
(* guards it with a threading.Event (mute_microphone), which can only be   *)
(* observed set by an invocation that overlaps another invocation's        *)
(* playback, so invocations are modelled as overlapping: each slot of      *)
(* `handlers` is one invocation of on_message.  An invocation gives up     *)
(* control at its blocking calls (the generation request, one synthesis    *)
(* request per segment, the playback wait); the code between two blocking  *)
(* calls is one step.                                                      *)
(***************************************************************************)
EXTENDS Integers, Sequences, FiniteSets, TLC

(* ---------------------------- bounds ---------------------------------- *)
MaxHandlers == 2      \* overlapping invocations of on_message
MaxTurns == 2         \* final+endpoint events that start a turn
MaxFinals == 1        \* fragments buffered by non-endpoint final events
MaxLen == 4           \* length of the text passed to a helper called on its own

(* ---------------------------- text ------------------------------------ *)
\* app.py:159-160
INTRODUCTION ==
  << "H", "e", "l", "l", "o", ",", " ", "t", "h", "i", "s", " ", "i", "s", " ", "C",
     "h", "a", "r", "l", "e", "s", " ", "f", "r", "o", "m", " ", "X", "Y", "Z", " ",
     "C", "o", "m", "p", "a", "n", "y", ".", " ", "H", "o", "w", " ", "a", "r", "e",
     " ", "y", "o", "u", " ", "t", "o", "d", "a", "y", "?", " ", "I", "'", "l", "l",
     " ", "b", "e", " ", "c", "o", "n", "d", "u", "c", "t", "i", "n", "g", " ", "y",
     "o", "u", "r", " ", "i", "n", "i", "t", "i", "a", "l", " ", "s", "c", "r", "e",
     "e", "n", "i", "n", "g", " ", "i", "n", "t", "e", "r", "v", "i", "e", "w", ".",
     " ", "L", "e", "t", "'", "s", " ", "b", "e", "g", "i", "n", ".", "\n" >>

\* app.py:175
CLOSING_STATEMENT ==
  << "\n", "T", "h", "a", "n", "k", " ", "y", "o", "u", " ", "f", "o", "r", " ", "y",
     "o", "u", "r", " ", "t", "i", "m", "e", ".", " ", "W", "e", "'", "l", "l", " ",
     "r", "e", "v", "i", "e", "w", " ", "y", "o", "u", "r", " ", "r", "e", "s", "p",
     "o", "n", "s", "e", "s", " ", "a", "n", "d", " ", "g", "e", "t", " ", "b", "a",
     "c", "k", " ", "t", "o", " ", "y", "o", "u", " ", "s", "o", "o", "n", "." >>

\* app.py:174
CLOSING_WORD ==
  << "c", "l", "o", "s", "i", "n", "g" >>

\* the whitespace class of str.strip() and of \s
IsSpace(c) == c \in {" ", "\n", "\t"}

\* the character class [.!?] of both regular expressions
IsStop(c) == c \in {".", "!", "?"}

UpperCase == <<"A","B","C","D","E","F","G","H","I","J","K","L","M",
               "N","O","P","Q","R","S","T","U","V","W","X","Y","Z">>

LowerCase == <<"a","b","c","d","e","f","g","h","i","j","k","l","m",
               "n","o","p","q","r","s","t","u","v","w","x","y","z">>

LowerChar(c) ==
  IF \E i \in 1..26 : UpperCase[i] = c
  THEN LowerCase[CHOOSE i \in 1..26 : UpperCase[i] = c]
  ELSE c

\* str.lower()
Lower(s) == [i \in 1..Len(s) |-> LowerChar(s[i])]

\* str.strip()
Strip(s) ==
  LET ink == {i \in 1..Len(s) : ~IsSpace(s[i])}
  IN  IF ink = {} THEN <<>>
      ELSE SubSeq(s, CHOOSE i \in ink : \A j \in ink : i <= j,
                     CHOOSE i \in ink : \A j \in ink : j <= i)

\* the `in` operator on strings: sub occurs in s
Contains(s, sub) ==
  \E i \in 0..(Len(s) - Len(sub)) : SubSeq(s, i + 1, i + Len(sub)) = sub

RECURSIVE JoinFrom(_, _)
JoinFrom(parts, i) ==
  IF i > Len(parts) THEN <<>>
  ELSE IF i = Len(parts) THEN parts[i]
  ELSE parts[i] \o <<" ">> \o JoinFrom(parts, i + 1)

\* " ".join(parts)
Join(parts) == JoinFrom(parts, 1)

\* position of the first character in [.!?] at or after i, Len(text)+1 if none
RECURSIVE NextStop(_, _)
NextStop(text, i) ==
  IF i > Len(text) THEN Len(text) + 1
  ELSE IF IsStop(text[i]) THEN i
  ELSE NextStop(text, i + 1)

\* re.findall(r'([^.!?]+\?)', text) scanning from position i: a non-empty
\* maximal run of characters outside [.!?] matches when a '?' ends it
RECURSIVE FindQuestions(_, _)
FindQuestions(text, i) ==
  IF i > Len(text) THEN <<>>
  ELSE LET j == NextStop(text, i)
       IN  IF j > Len(text) THEN <<>>
           ELSE IF j > i /\ text[j] = "?"
                THEN <<SubSeq(text, i, j)>> \o FindQuestions(text, j + 1)
                ELSE FindQuestions(text, j + 1)

extract_questions(text) ==
  LET found == FindQuestions(text, 1)
  IN  [k \in 1..Len(found) |-> Strip(found[k])]

\* the comparison of line 98 without lower()
is_duplicate_question_CaseSensitive(new_text, existing_questions) ==
  LET new_questions == extract_questions(new_text)
  IN  \E k \in 1..Len(new_questions) : new_questions[k] \in existing_questions

is_duplicate_question(new_text, existing_questions) ==
  LET new_questions == extract_questions(new_text)
  IN  \E k \in 1..Len(new_questions) :
        \E eq \in existing_questions : Lower(new_questions[k]) = Lower(eq)

\* re.finditer(r'(?<=[.!?])\s+', text): starts of the whitespace runs that
\* follow a character of [.!?]
Boundaries(text) ==
  {b \in 2..Len(text) : IsSpace(text[b]) /\ IsStop(text[b - 1])}

RECURSIVE SegmentsFrom(_, _)
SegmentsFrom(text, start) ==
  LET later == {b \in Boundaries(text) : b >= start}
  IN  IF later = {} THEN <<Strip(SubSeq(text, start, Len(text)))>>
      ELSE LET b == CHOOSE x \in later : \A y \in later : x <= y
           IN  <<Strip(SubSeq(text, start, b))>> \o SegmentsFrom(text, b + 1)

segment_text_by_sentence(text) == SegmentsFrom(text, 1)

(* ---------------------------- inputs ---------------------------------- *)
\* result.channel.alternatives[0].transcript of the events delivered
Transcripts == { <<>>, <<"a", " ">> }

\* response.text.strip() of the generation service
Replies ==
  { <<"G", "o", "?">>,
    <<"A", "?", " ", "B", "?", " ", "C", "?", " ", "D", "?">>,
    <<"g", "o", "?", " ", "C", "l", "o", "s", "i", "n", "g", ".">> }

(* ---------------------------- constants ------------------------------- *)
MAX_RETRIES == 3
CLOSE_THRESHOLD == 5

(* ---------------------------- state ----------------------------------- *)
VARIABLES
  conversation_memory,   \* app.py:31, sequence of [role, content]
  asked_questions,       \* app.py:32, set of texts
  mute_microphone,       \* app.py:33, TRUE when the event is set
  is_finals,             \* app.py:133, buffered final fragments
  has_introduced,        \* app.py:134
  handlers,              \* the invocations of on_message in progress
  temp_files,            \* the temporary audio files that exist
  session,               \* "listening" until the operator stops the session
  arg_text,              \* the text passed to a text helper called on its own
  arg_known,             \* the set passed to is_duplicate_question with it
  returned               \* what that call returned

\* the arguments and the result of a helper called on its own
call == <<arg_text, arg_known, returned>>

vars == <<conversation_memory, asked_questions, mute_microphone, is_finals,
          has_introduced, handlers, temp_files, session, call>>

\* number of turns started so far: one user entry per turn
Turns ==
  Cardinality({i \in 1..Len(conversation_memory) :
                 conversation_memory[i].role = "user"})

\* the locals of an invocation of on_message that has just appended the user
\* entry of its turn and waits for the reply of line 155; `turn` is the
\* position of that entry, and names the temporary file of the turn.  A local
\* is kept only while the code can still read it
NewHandler(turn) ==
  [pc |-> "gen", turn |-> turn, ai_response |-> <<>>, retry_count |-> 0]

Init ==
  /\ conversation_memory = <<>>
  /\ asked_questions = {}
  /\ mute_microphone = FALSE
  /\ is_finals = <<>>
  /\ has_introduced = FALSE
  /\ handlers = {}
  /\ temp_files = {}
  /\ session = "listening"
  /\ arg_text = <<>>
  /\ arg_known = {}
  /\ returned = <<"none">>

(* ---------------------------- on_message ------------------------------ *)
\* app.py:152, the user entry of a turn
UserEntry(sentence, utterance) == [role |-> "user", content |-> Strip(sentence)]

\* the introduction test inverted
WithIntroduction_Inverted(ai_response, introduced) ==
  IF introduced THEN INTRODUCTION \o ai_response ELSE ai_response

\* app.py:158-160, the reply with the introduction when none was given yet
WithIntroduction(ai_response, introduced) ==
  IF ~introduced THEN INTRODUCTION \o ai_response ELSE ai_response

\* the loop condition without the duplicate test
RetryNeeded_NoDuplicateTest(ai_response, asked, retry_count) ==
  retry_count < MAX_RETRIES

\* the loop condition with the budget off by one
RetryNeeded_OneMore(ai_response, asked, retry_count) ==
  is_duplicate_question(ai_response, asked) /\ retry_count <= MAX_RETRIES

\* app.py:165, the condition of the duplicate-avoidance loop
RetryNeeded(ai_response, asked, retry_count) ==
  is_duplicate_question(ai_response, asked) /\ retry_count < MAX_RETRIES

\* the questions of the reply replacing the set instead of joining it
RecordQuestions_Replace(asked, ai_response) ==
  LET new_questions == extract_questions(ai_response)
  IN  {new_questions[k] : k \in 1..Len(new_questions)}

\* app.py:170-171, asked_questions.update(new_questions)
RecordQuestions(asked, ai_response) ==
  LET new_questions == extract_questions(ai_response)
  IN  asked \cup {new_questions[k] : k \in 1..Len(new_questions)}

\* the closing condition without the lower() of the reply
ShouldClose_CaseSensitive(asked, ai_response) ==
  Cardinality(asked) >= CLOSE_THRESHOLD /\ ~Contains(ai_response, CLOSING_WORD)

\* app.py:174, the condition for the closing statement
ShouldClose(asked, ai_response) ==
  Cardinality(asked) >= CLOSE_THRESHOLD
    /\ ~Contains(Lower(ai_response), CLOSING_WORD)

\* app.py:174-175
WithClosing(ai_response, asked) ==
  IF ShouldClose(asked, ai_response)
  THEN ai_response \o CLOSING_STATEMENT
  ELSE ai_response

\* on_message testing the mute flag only before it starts a turn
on_message_MuteOnUtterance(sentence, is_final, speech_final) ==
  /\ session = "listening"
  /\ Cardinality(handlers) < MaxHandlers
  /\ IF Len(sentence) = 0
     THEN UNCHANGED <<conversation_memory, is_finals, handlers>>
     ELSE IF ~is_final
     THEN UNCHANGED <<conversation_memory, is_finals, handlers>>
     ELSE IF ~speech_final
     THEN /\ Len(is_finals) < MaxFinals
          /\ is_finals' = Append(is_finals, sentence)
          /\ UNCHANGED <<conversation_memory, handlers>>
     ELSE IF mute_microphone
     THEN UNCHANGED <<conversation_memory, is_finals, handlers>>
     ELSE /\ Turns < MaxTurns
          /\ is_finals' = <<>>
          /\ LET utterance == Join(Append(is_finals, sentence))
             IN  /\ conversation_memory' =
                      Append(conversation_memory, UserEntry(sentence, utterance))
                 /\ handlers' = handlers \cup
                      {NewHandler(Len(conversation_memory) + 1)}
  /\ UNCHANGED <<asked_questions, mute_microphone, has_introduced,
                 temp_files, session>>
  /\ UNCHANGED call

\* on_message without the is_final test of line 146
on_message_BufferInterim(sentence, is_final, speech_final) ==
  /\ session = "listening"
  /\ Cardinality(handlers) < MaxHandlers
  /\ IF mute_microphone
     THEN UNCHANGED <<conversation_memory, is_finals, handlers>>
     ELSE IF Len(sentence) = 0
     THEN UNCHANGED <<conversation_memory, is_finals, handlers>>
     ELSE IF ~speech_final
     THEN /\ Len(is_finals) < MaxFinals
          /\ is_finals' = Append(is_finals, sentence)
          /\ UNCHANGED <<conversation_memory, handlers>>
     ELSE /\ Turns < MaxTurns
          /\ is_finals' = <<>>
          /\ LET utterance == Join(Append(is_finals, sentence))
             IN  /\ conversation_memory' =
                      Append(conversation_memory, UserEntry(sentence, utterance))
                 /\ handlers' = handlers \cup
                      {NewHandler(Len(conversation_memory) + 1)}
  /\ UNCHANGED <<asked_questions, mute_microphone, has_introduced,
                 temp_files, session>>
  /\ UNCHANGED call

\* on_message still called after the connection was closed
on_message_AfterStop(sentence, is_final, speech_final) ==
  /\ Cardinality(handlers) < MaxHandlers
  /\ IF mute_microphone
     THEN UNCHANGED <<conversation_memory, is_finals, handlers>>
     ELSE IF Len(sentence) = 0
     THEN UNCHANGED <<conversation_memory, is_finals, handlers>>
     ELSE IF ~is_final
     THEN UNCHANGED <<conversation_memory, is_finals, handlers>>
     ELSE IF ~speech_final
     THEN /\ Len(is_finals) < MaxFinals
          /\ is_finals' = Append(is_finals, sentence)
          /\ UNCHANGED <<conversation_memory, handlers>>
     ELSE /\ Turns < MaxTurns
          /\ is_finals' = <<>>
          /\ LET utterance == Join(Append(is_finals, sentence))
             IN  /\ conversation_memory' =
                      Append(conversation_memory, UserEntry(sentence, utterance))
                 /\ handlers' = handlers \cup
                      {NewHandler(Len(conversation_memory) + 1)}
  /\ UNCHANGED <<asked_questions, mute_microphone, has_introduced,
                 temp_files, session>>
  /\ UNCHANGED call

\* on_message without the empty-transcript test of lines 143-144
on_message_NoEmptyCheck(sentence, is_final, speech_final) ==
  /\ session = "listening"
  /\ Cardinality(handlers) < MaxHandlers
  /\ IF mute_microphone
     THEN UNCHANGED <<conversation_memory, is_finals, handlers>>
     ELSE IF ~is_final
     THEN UNCHANGED <<conversation_memory, is_finals, handlers>>
     ELSE IF ~speech_final
     THEN /\ Len(is_finals) < MaxFinals
          /\ is_finals' = Append(is_finals, sentence)
          /\ UNCHANGED <<conversation_memory, handlers>>
     ELSE /\ Turns < MaxTurns
          /\ is_finals' = <<>>
          /\ LET utterance == Join(Append(is_finals, sentence))
             IN  /\ conversation_memory' =
                      Append(conversation_memory, UserEntry(sentence, utterance))
                 /\ handlers' = handlers \cup
                      {NewHandler(Len(conversation_memory) + 1)}
  /\ UNCHANGED <<asked_questions, mute_microphone, has_introduced,
                 temp_files, session>>
  /\ UNCHANGED call

\* app.py:139-152 and 183-184: one transcript event, up to the generation
\* request of line 155 when the event ends an utterance
on_message(sentence, is_final, speech_final) ==
  /\ session = "listening"
  /\ Cardinality(handlers) < MaxHandlers
  /\ IF mute_microphone
     THEN UNCHANGED <<conversation_memory, is_finals, handlers>>
     ELSE IF Len(sentence) = 0
     THEN UNCHANGED <<conversation_memory, is_finals, handlers>>
     ELSE IF ~is_final
     THEN UNCHANGED <<conversation_memory, is_finals, handlers>>
     ELSE IF ~speech_final
     THEN /\ Len(is_finals) < MaxFinals
          /\ is_finals' = Append(is_finals, sentence)
          /\ UNCHANGED <<conversation_memory, handlers>>
     ELSE /\ Turns < MaxTurns
          /\ is_finals' = <<>>
          /\ LET utterance == Join(Append(is_finals, sentence))
             IN  /\ conversation_memory' =
                      Append(conversation_memory, UserEntry(sentence, utterance))
                 /\ handlers' = handlers \cup
                      {NewHandler(Len(conversation_memory) + 1)}
  /\ UNCHANGED <<asked_questions, mute_microphone, has_introduced,
                 temp_files, session>>
  /\ UNCHANGED call

\* Accept writing the assistant entry over the last entry of the memory
Accept_Overwrite(h, ai_response, retry_count) ==
  LET asked == RecordQuestions(asked_questions, ai_response)
      reply == WithClosing(ai_response, asked)
  IN  /\ asked_questions' = asked
      /\ conversation_memory' =
           [conversation_memory EXCEPT ![Len(conversation_memory)] =
              [role |-> "assistant", content |-> reply]]
      /\ temp_files' = temp_files \cup {h.turn}
      /\ handlers' = (handlers \ {h}) \cup
           {[h EXCEPT !.pc = "synth", !.ai_response = reply,
                      !.retry_count = retry_count]}

\* app.py:170-178, 116-117: record the questions of the accepted reply, add
\* the closing statement, append the assistant entry, split the text (the
\* segments are segment_text_by_sentence(ai_response) throughout the loop) and
\* open the temporary file; the next blocking call is the first synthesis
Accept(h, ai_response, retry_count) ==
  LET asked == RecordQuestions(asked_questions, ai_response)
      reply == WithClosing(ai_response, asked)
  IN  /\ asked_questions' = asked
      /\ conversation_memory' =
           Append(conversation_memory, [role |-> "assistant", content |-> reply])
      /\ temp_files' = temp_files \cup {h.turn}
      /\ handlers' = (handlers \ {h}) \cup
           {[h EXCEPT !.pc = "synth", !.ai_response = reply,
                      !.retry_count = retry_count]}

\* app.py:166 is reached: a new reply is requested; the assignment of line
\* 166 overwrites ai_response, so the dropped reply is not kept
Regenerate(h, ai_response, retry_count) ==
  /\ handlers' = (handlers \ {h}) \cup
       {[h EXCEPT !.pc = "retry", !.retry_count = retry_count]}
  /\ UNCHANGED <<conversation_memory, asked_questions, temp_files>>

\* app.py:155-165: the first generation request returns
GenerationReturns(h, text) ==
  /\ h.pc = "gen"
  /\ LET ai_response == WithIntroduction(text, has_introduced)
     IN  /\ has_introduced' = TRUE
         /\ IF RetryNeeded(ai_response, asked_questions, 0)
            THEN Regenerate(h, ai_response, 0)
            ELSE Accept(h, ai_response, 0)
  /\ UNCHANGED <<mute_microphone, is_finals, session>>
  /\ UNCHANGED call

\* app.py:165-167: a request of the duplicate-avoidance loop returns
RetryReturns(h, text) ==
  /\ h.pc = "retry"
  /\ LET retry_count == h.retry_count + 1
     IN  IF RetryNeeded(text, asked_questions, retry_count)
         THEN Regenerate(h, text, retry_count)
         ELSE Accept(h, text, retry_count)
  /\ UNCHANGED <<mute_microphone, is_finals, has_introduced, session>>
  /\ UNCHANGED call

\* app.py:111 raises at line 155 or 166: the exception leaves on_message
GenerationFails(h) ==
  /\ h.pc \in {"gen", "retry"}
  /\ handlers' = handlers \ {h}
  /\ UNCHANGED <<conversation_memory, asked_questions, mute_microphone,
                 is_finals, has_introduced, temp_files, session>>
  /\ UNCHANGED call

(* ---------------------------- process_and_play_audio ------------------ *)
\* app.py:118-124: the synthesis requests of all segments have returned and
\* their bytes are written; the file is closed, the event is set and playback
\* starts.  The requests change nothing but the loop position, so the loop is
\* one blocking phase (pc = "synth")
SynthesisReturns(h) ==
  /\ h.pc = "synth"
  /\ handlers' = (handlers \ {h}) \cup {[NewHandler(h.turn) EXCEPT !.pc = "play"]}
  /\ mute_microphone' = TRUE
  /\ UNCHANGED <<conversation_memory, asked_questions, is_finals,
                 has_introduced, temp_files, session>>
  /\ UNCHANGED call

\* app.py:77 raises for some segment inside the with block of line 117: the
\* file was created
\* with delete=False and line 125 is not reached
SynthesisFails(h) ==
  /\ h.pc = "synth"
  /\ handlers' = handlers \ {h}
  /\ UNCHANGED <<conversation_memory, asked_questions, mute_microphone,
                 is_finals, has_introduced, temp_files, session>>
  /\ UNCHANGED call

\* app.py:85-89, 125-126: playback ends, the event is cleared, the file removed
PlaybackEnds(h) ==
  /\ h.pc = "play"
  /\ mute_microphone' = FALSE
  /\ temp_files' = temp_files \ {h.turn}
  /\ handlers' = handlers \ {h}
  /\ UNCHANGED <<conversation_memory, asked_questions, is_finals,
                 has_introduced, session>>
  /\ UNCHANGED call

\* app.py:82-86 raises (mixer or codec error): lines 89, 125 and 126 are
\* not reached
PlaybackFails(h) ==
  /\ h.pc = "play"
  /\ handlers' = handlers \ {h}
  /\ UNCHANGED <<conversation_memory, asked_questions, mute_microphone,
                 is_finals, has_introduced, temp_files, session>>
  /\ UNCHANGED call

(* ---------------------------- main ------------------------------------ *)
\* app.py:209-211: the operator presses Enter, the connection is closed
Stop ==
  /\ session = "listening"
  /\ session' = "closed"
  /\ UNCHANGED <<conversation_memory, asked_questions, mute_microphone,
                 is_finals, has_introduced, handlers, temp_files>>
  /\ UNCHANGED call

Next ==
  \/ \E sentence \in Transcripts, is_final \in BOOLEAN, speech_final \in BOOLEAN :
        on_message(sentence, is_final, speech_final)
  \/ \E h \in handlers, text \in Replies : GenerationReturns(h, text)
  \/ \E h \in handlers, text \in Replies : RetryReturns(h, text)
  \/ \E h \in handlers : GenerationFails(h)
  \/ \E h \in handlers : SynthesisReturns(h)
  \/ \E h \in handlers : SynthesisFails(h)
  \/ \E h \in handlers : PlaybackEnds(h)
  \/ \E h \in handlers : PlaybackFails(h)
  \/ Stop

Spec == Init /\ [][Next]_vars

(* ---------------------------- the text helpers on their own ----------- *)
\* the characters of the texts passed to the helpers
Alphabet == {"a", "A", "?", ".", " "}

\* the texts passed to the helpers
Texts == UNION {[1..n -> Alphabet] : n \in 0..MaxLen}

\* the sets of recorded questions passed to is_duplicate_question
KnownSets ==
  { {}, {<<"a", "?">>}, {<<"A", "?">>}, {<<"A", " ", "a", "?">>, <<"?">>} }

InitText ==
  /\ conversation_memory = <<>>
  /\ asked_questions = {}
  /\ mute_microphone = FALSE
  /\ is_finals = <<>>
  /\ has_introduced = FALSE
  /\ handlers = {}
  /\ temp_files = {}
  /\ session = "listening"
  /\ arg_text \in Texts
  /\ arg_known \in KnownSets
  /\ returned = <<"none">>

\* app.py:62-72 called with arg_text
CallSegment ==
  /\ returned = <<"none">>
  /\ returned' = <<"segment_text_by_sentence", segment_text_by_sentence(arg_text)>>
  /\ UNCHANGED <<conversation_memory, asked_questions, mute_microphone,
                 is_finals, has_introduced, handlers, temp_files, session,
                 arg_text, arg_known>>

\* app.py:91-93 called with arg_text
CallExtract ==
  /\ returned = <<"none">>
  /\ returned' = <<"extract_questions", extract_questions(arg_text)>>
  /\ UNCHANGED <<conversation_memory, asked_questions, mute_microphone,
                 is_finals, has_introduced, handlers, temp_files, session,
                 arg_text, arg_known>>

\* app.py:95-98 called with arg_text and arg_known
CallIsDuplicate ==
  /\ returned = <<"none">>
  /\ returned' = <<"is_duplicate_question",
                   is_duplicate_question(arg_text, arg_known)>>
  /\ UNCHANGED <<conversation_memory, asked_questions, mute_microphone,
                 is_finals, has_introduced, handlers, temp_files, session,
                 arg_text, arg_known>>

NextText == CallSegment \/ CallExtract \/ CallIsDuplicate

SpecText == InitText /\ [][NextText]_vars

(* ---------------------------- properties ------------------------------ *)
\* positions of the assistant entries of the memory
AssistantEntries ==
  {i \in 1..Len(conversation_memory) : conversation_memory[i].role = "assistant"}

StartsWith(s, prefix) ==
  Len(s) >= Len(prefix) /\ SubSeq(s, 1, Len(prefix)) = prefix

EndsWith(s, suffix) ==
  Len(s) >= Len(suffix) /\ SubSeq(s, Len(s) - Len(suffix) + 1, Len(s)) = suffix

\* positions of the assistant entries that carry the closing statement
ClosedEntries ==
  {i \in AssistantEntries :
     EndsWith(conversation_memory[i].content, CLOSING_STATEMENT)}

\* positions of the assistant entries that start with the introduction
IntroducedEntries ==
  {i \in AssistantEntries :
     StartsWith(conversation_memory[i].content, INTRODUCTION)}

\* generation requests issued so far by the turn of an invocation: line 155
\* and one per pass of the loop of lines 165-167
GenerationCalls(h) == h.retry_count + (IF h.pc = "retry" THEN 2 ELSE 1)

\* C1: whenever no turn is in progress the mute flag is clear, whatever way
\* the turns before ended (success, generation, synthesis or playback failure).
C1_MuteClearAfterTurn == handlers = {} => ~mute_microphone

\* C2: a second turn never starts while the blocking work of a turn is in
\* progress: at most one invocation is past its user entry at any time.
C2_OneTurnAtATime == Cardinality(handlers) <= 1

\* C3: within a turn the mute flag is set from before the first synthesis
\* request until playback has ended or been aborted.
C3_MutedWhileSpeaking ==
  \A h \in handlers : h.pc \in {"synth", "play"} => mute_microphone

\* C4: a turn issues at most 4 generation requests (3 of them retries), and
\* when the 4th one returns its text is accepted whatever it is: its questions
\* are recorded, the assistant entry is appended and synthesis starts.
C4_RetryBudget ==
  /\ [](\A h \in handlers : GenerationCalls(h) <= 4 /\ h.retry_count <= 3)
  /\ [][\A h \in handlers :
          (h.pc = "retry" /\ GenerationCalls(h) = 4 /\ h \notin handlers'
             /\ \E g \in handlers' : g.turn = h.turn)
          => \E g \in handlers', text \in Replies :
               /\ g.turn = h.turn /\ g.pc = "synth" /\ GenerationCalls(g) = 4
               /\ g.ai_response \in {text, text \o CLOSING_STATEMENT}
               /\ \A k \in 1..Len(extract_questions(text)) :
                    extract_questions(text)[k] \in asked_questions'
               /\ conversation_memory' = Append(conversation_memory,
                    [role |-> "assistant", content |-> g.ai_response])]_vars

\* C4 witness: "Go?" and "go?" duplicate each other, so one of them was
\* recorded from a 4th attempt; a turn that spent its 4 requests is in synthesis.
C4_Witness ==
  /\ {<<"G", "o", "?">>, <<"g", "o", "?">>} \subseteq asked_questions
  /\ \E h \in handlers : h.pc = "synth" /\ GenerationCalls(h) = 4

\* C5: the user entry appended by a final+endpoint event holds the whole
\* utterance (the buffered fragments and the current one, in arrival order,
\* trimmed or not), and the fragment buffer is empty afterwards.
C5_UserEntryIsUtterance ==
  [][\A sentence \in Transcripts :
       (~mute_microphone /\ Len(sentence) > 0
          /\ on_message(sentence, TRUE, TRUE))
       => /\ is_finals' = <<>>
          /\ \E content \in {Join(Append(is_finals, sentence)),
                             Strip(Join(Append(is_finals, sentence)))} :
               conversation_memory' = Append(conversation_memory,
                 [role |-> "user", content |-> content])]_vars

\* C6: the introduction is prefixed to the first assistant reply of the
\* session and to no other; has_introduced is true from that turn on.
C6_IntroducedOnce ==
  /\ [](/\ has_introduced <=> AssistantEntries # {}
        /\ \A i \in AssistantEntries :
             i \in IntroducedEntries <=> \A j \in AssistantEntries : i <= j)
  /\ [][has_introduced => has_introduced']_vars

\* C6 witness: two replies were accepted, only the first one is introduced.
C6_Witness ==
  /\ has_introduced
  /\ Cardinality(AssistantEntries) = 2
  /\ Cardinality(IntroducedEntries) = 1

\* C7: the assistant entry appended by a turn ends with the closing statement
\* exactly when, after the reply's questions were recorded, the set has at
\* least 5 members and the reply does not contain "closing" in any letter
\* case; the text handed to synthesis is that same entry.
C7_ClosingRule ==
  [][(Len(conversation_memory') = Len(conversation_memory) + 1
        /\ conversation_memory'[Len(conversation_memory')].role = "assistant")
     => LET content == conversation_memory'[Len(conversation_memory')].content
            closed == EndsWith(content, CLOSING_STATEMENT)
            reply == IF closed
                     THEN SubSeq(content, 1, Len(content) - Len(CLOSING_STATEMENT))
                     ELSE content
        IN  /\ reply \in Replies \cup {INTRODUCTION \o text : text \in Replies}
            /\ closed <=> (Cardinality(asked_questions') >= 5
                             /\ ~Contains(Lower(reply), CLOSING_WORD))
            /\ \E h \in handlers' : h.pc = "synth" /\ h.ai_response = content]_vars

\* C7 witness: with 5 or more questions recorded the memory holds a reply that
\* got the closing statement and a reply with "Closing" that did not.
C7_Witness ==
  /\ Cardinality(asked_questions) >= 5
  /\ ClosedEntries # {}
  /\ \E i \in AssistantEntries \ ClosedEntries :
       /\ Contains(Lower(conversation_memory[i].content), CLOSING_WORD)
       /\ \E j \in ClosedEntries : j < i

\* C8: the closing statement is appended to at most one reply of a session.
C8_ClosingOnce == Cardinality(ClosedEntries) <= 1

\* C9: every recorded question is trimmed and case-folded, and no two members
\* differ only in letter case.
C9_Normalized ==
  /\ \A q \in asked_questions : q = Lower(Strip(q))
  /\ \A p, q \in asked_questions : Lower(p) = Lower(q) => p = q

\* C10: no step removes a member of the set of recorded questions.
C10_AskedGrows == [][asked_questions \subseteq asked_questions']_vars

\* C10 witness: two turns have recorded questions (one reply holds at most 5).
C10_Witness == Cardinality(asked_questions) >= 6

\* C11: a transcript event handled while the mute flag is set changes nothing:
\* memory, fragment buffer, recorded questions, has_introduced and the flag
\* stay as they are and no invocation starts a turn.
C11_MutedEventsDiscarded ==
  [][mute_microphone =>
       \A sentence \in Transcripts, is_final \in BOOLEAN, speech_final \in BOOLEAN :
         on_message(sentence, is_final, speech_final) => UNCHANGED vars]_vars

\* C11 witness: a turn is playing, the flag is set and an event can be handled.
C11_Witness ==
  /\ mute_microphone
  /\ session = "listening"
  /\ Cardinality(handlers) < MaxHandlers
  /\ \E h \in handlers : h.pc = "play"

\* C12: a temporary audio file exists only while the speak call that created
\* it is running (synthesizing or playing).
C12_TempFileReleased ==
  \A t \in temp_files : \E h \in handlers : h.turn = t /\ h.pc \in {"synth", "play"}

\* C13: a turn that ends with a failed generation request appends no assistant
\* entry and records no question, and when it was the only turn in progress
\* the mute flag is clear afterwards, so the next utterance starts a turn.
C13_GenerationFailureEndsTurnOnly ==
  [][\A h \in handlers :
       GenerationFails(h)
       => /\ conversation_memory' = conversation_memory
          /\ asked_questions' = asked_questions
          /\ handlers' = {} => ~mute_microphone']_vars

\* C14: the memory only grows at its end, by one entry at a time, and a step
\* on which a generation request fails leaves it as it is.
C14_MemoryAppendOnly ==
  [][/\ Len(conversation_memory') \in
          {Len(conversation_memory), Len(conversation_memory) + 1}
     /\ SubSeq(conversation_memory', 1, Len(conversation_memory))
          = conversation_memory
     /\ (\E h \in handlers : GenerationFails(h))
          => conversation_memory' = conversation_memory]_vars

\* C14 witness: two turns have appended their user and assistant entries.
C14_Witness == Len(conversation_memory) = 4 /\ Cardinality(AssistantEntries) = 2

IsFragment(t, i, j) ==
  /\ i < j /\ t[j] = "?"
  /\ \A k \in i..(j - 1) : ~IsStop(t[k])
  /\ i = 1 \/ IsStop(t[i - 1])

\* C17: is_duplicate_question(text, known) is true exactly when some question
\* fragment of text, trimmed and lower-cased, equals the lower-cased form of a
\* member of known; so it is false for an empty known and for text without '?'.
C17_IsDuplicate ==
  returned[1] = "is_duplicate_question" =>
    /\ returned[2] <=>
         \E i, j \in 1..Len(arg_text) :
           /\ IsFragment(arg_text, i, j)
           /\ \E eq \in arg_known :
                Lower(Strip(SubSeq(arg_text, i, j))) = Lower(eq)
    /\ arg_known = {} => ~returned[2]
    /\ (\A k \in 1..Len(arg_text) : arg_text[k] # "?") => ~returned[2]

\* C17 witness: the call returned TRUE for a fragment that matches a recorded
\* question only after lower-casing.
C17_Witness ==
  /\ returned = <<"is_duplicate_question", TRUE>>
  /\ arg_known = {<<"A", "?">>}
  /\ \A k \in 1..Len(arg_text) : arg_text[k] # "A"

NotSpace(c) == ~IsSpace(c)

RECURSIVE Concat(_)
Concat(parts) ==
  IF parts = <<>> THEN <<>> ELSE Head(parts) \o Concat(Tail(parts))

\* the text ends in the whitespace that follows a character of [.!?]
EndsAtBoundary(t) ==
  \E b \in 2..Len(t) : IsStop(t[b - 1]) /\ \A k \in b..Len(t) : IsSpace(t[k])

\* C18: the segments, put together, are the text up to whitespace; every
\* segment but the last ends with its punctuation; a segment is empty only if
\* it is the last one and the text ends at a boundary.
C18_Segments ==
  returned[1] = "segment_text_by_sentence" =>
    LET segments == returned[2]
    IN  /\ SelectSeq(Concat(segments), NotSpace) = SelectSeq(arg_text, NotSpace)
        /\ \A k \in 1..(Len(segments) - 1) :
             segments[k] # <<>> /\ IsStop(segments[k][Len(segments[k])])
        /\ \A k \in 1..Len(segments) :
             segments[k] = <<>> => k = Len(segments) /\ EndsAtBoundary(arg_text)

\* C19: nothing is recorded before the introduction is given, and the turn
\* that gives it accepts its first reply without a retry: the assistant entry
\* it appends starts with the introduction.
C19_IntroductionKept ==
  /\ [](~has_introduced => asked_questions = {})
  /\ [][(~has_introduced /\ has_introduced')
          => /\ Len(conversation_memory') = Len(conversation_memory) + 1
             /\ conversation_memory'[Len(conversation_memory')].role = "assistant"
             /\ StartsWith(conversation_memory'[Len(conversation_memory')].content,
                           INTRODUCTION)
             /\ \A h \in handlers' \ handlers :
                  h.pc = "synth" /\ h.retry_count = 0]_vars

\* C19 witness: the only reply so far carries the introduction and its
\* questions are recorded.
C19_Witness ==
  /\ has_introduced
  /\ Cardinality(AssistantEntries) = 1
  /\ IntroducedEntries = AssistantEntries
  /\ asked_questions # {}

\* C20: an event with an empty transcript changes nothing, whatever its flags:
\* buffered fragments stay buffered and no turn starts.
C20_EmptyTranscriptIgnored ==
  [][\A is_final \in BOOLEAN, speech_final \in BOOLEAN :
       on_message(<<>>, is_final, speech_final) => UNCHANGED vars]_vars

\* C20 witness: a fragment is buffered, the flag is clear and an event, empty
\* or not, can be handled and could start a turn.
C20_Witness ==
  /\ is_finals # <<>>
  /\ ~mute_microphone
  /\ session = "listening"
  /\ Cardinality(handlers) < MaxHandlers
  /\ Turns < MaxTurns

====
